---- MODULE Spec2Model ----
(***************************************************************************)
(* Logopher: a UDP writer for LogStash (src/logopher.go).                  *)
(*                                                                         *)
(* The model holds one UDPWriter, the sockets it has dialled, and the      *)
(* answers of the host they run on.  DialUDP and Close are single steps.   *)
(* Reopen is its Close and then its open().  Write (and Log, which         *)
(* delegates to it) is a call in progress: one step per evaluation of the  *)
(* loop condition and one per transport write, because the transport       *)
(* answers each write separately.                                          *)
(***************************************************************************)
EXTENDS Integers, Sequences, FiniteSets

VARIABLES
    constructed,        \* DialUDP has returned a writer (the *UDPWriter is non-nil)
    socket,             \* u.socket: the handle the writer holds (NoSocket before open)
    address,            \* u.address
    enableLogging,      \* u.enableLogging
    live,               \* handles that were dialled and not yet closed
    peer,               \* handle -> the address it was dialled to
    pc,                 \* position of the caller: "idle", inside Write: "loop", "write",
                        \* or inside Reopen after its Close: "reopen"
    op,                 \* the public entry point of the call in progress
    rawBytes,           \* Write's argument
    totalBytesWritten,  \* Write's local
    writeError,         \* Write's local
    obs,                \* what the call in progress (or the last call) did
    ret,                \* what the last call returned
    mutex               \* the caller holds one lock across every operation on the writer

vars == <<constructed, socket, address, enableLogging, live, peer,
          pc, op, rawBytes, totalBytesWritten, writeError, obs, ret, mutex>>

(***************************************************************************)
(* Bounds of the model.                                                    *)
(***************************************************************************)
MaxLen == 3         \* longest payload handed to Write directly
NumHandles == 2     \* socket objects that can exist at the same time
CountCap == 2       \* the per-call counters of obs saturate here
MaxShort == 3       \* a transport write takes nothing, or all but at most this many bytes

(***************************************************************************)
(* Values.                                                                 *)
(***************************************************************************)
Nil == "nil"
WriteError == "WriteError"
CloseError == "CloseError"
AddressResolutionError == "AddressResolutionError"
ConnectionError == "ConnectionError"

NoSocket == 0
Handles == 1..NumHandles

\* "127.0.0.1:9999" is a literal endpoint, "logstash:5000" needs the resolver,
\* "ADDRESS" (the test's argument) has no port and never resolves.
Addresses == {"127.0.0.1:9999", "logstash:5000", "ADDRESS"}
WellFormed == {"127.0.0.1:9999", "logstash:5000"}
Literal == {"127.0.0.1:9999"}

ByteVals == {"a", "b"}

RECURSIVE SeqsUpTo(_, _)
SeqsUpTo(S, n) ==
    IF n = 0 THEN {<<>>}
    ELSE LET shorter == SeqsUpTo(S, n - 1)
         IN  shorter \cup {Append(s, x) : s \in {t \in shorter : Len(t) = n - 1}, x \in S}

Payloads == SeqsUpTo(ByteVals, MaxLen)

Messages == {<<"t", "e", "s", "t">>, <<>>}
Timestamps == {<<"T", "1">>, <<"T", "2", "2">>}
Hostnames == {<<"h", "1">>}

Min(a, b) == IF a < b THEN a ELSE b
Bump(n) == Min(n + 1, CountCap)

(***************************************************************************)
(* Log's template, one element per byte.                                   *)
(***************************************************************************)
basicMessageFormat ==
    << <<"{", "\"", "@", "t", "i", "m", "e", "s", "t", "a", "m", "p", "\"", ":", "\"">>,
       <<"\"", ",", " ", "\"", "@", "v", "e", "r", "s", "i", "o", "n", "\"", ":", "\"",
         "2", "\"", ",", " ", "\"", "m", "e", "s", "s", "a", "g", "e", "\"", ":", "\"">>,
       <<"\"", ",", " ", "\"", "h", "o", "s", "t", "\"", ":", "\"">>,
       <<"\"", "}", "\n">> >>

\* fmt.Sprintf(basicMessageFormat, ts, msg, host)
Sprintf(format, ts, msg, host) ==
    format[1] \o ts \o format[2] \o msg \o format[3] \o host \o format[4]

\* a lookup that hands back a placeholder instead of "" when it fails
HostnamePlaceholder(name, lookupFails) == IF lookupFails THEN <<"?">> ELSE name

\* os.Hostname(): the name, or "" together with an error that Log drops
Hostname(name, lookupFails) == IF lookupFails THEN <<>> ELSE name

(***************************************************************************)
(* The host: net.ResolveUDPAddr, net.DialUDP, UDPConn.Close.            *)
(***************************************************************************)
\* net.ResolveUDPAddr("udp", addr): a malformed address never resolves, a
\* literal one always does, a name does while the resolver answers.
ResolveUDPAddr(addr, dns) ==
    IF addr \in WellFormed /\ (addr \in Literal \/ dns)
    THEN Nil ELSE AddressResolutionError

\* net.DialUDP("udp", nil, udpAddr)
DialErr(can) == IF can THEN Nil ELSE ConnectionError

\* the socket object a successful dial returns: one that is neither still
\* open nor the one the writer holds (NoSocket when the model has none left)
NewConn(liveSet, cur) ==
    LET free == {h \in Handles : h \notin liveSet \cup {cur}}
    IN  IF free = {} THEN NoSocket
        ELSE CHOOSE h \in free : \A g \in free : h <= g

\* an open() that drops the new connection and keeps the old handle
KeepOldSocket(old, conn) == old

\* u.socket = conn
OpenSocket(old, conn) == conn

\* open(): resolve, dial, keep the connection
open(addr, cur, liveSet, dns, can) ==
    LET rerr == ResolveUDPAddr(addr, dns)
        derr == DialErr(can)
        conn == NewConn(liveSet, cur)
    IN  IF rerr # Nil
        THEN [err |-> rerr, socket |-> cur, live |-> liveSet, conn |-> NoSocket,
              resolves |-> 1, dials |-> 0]
        ELSE IF derr # Nil
        THEN [err |-> derr, socket |-> cur, live |-> liveSet, conn |-> NoSocket,
              resolves |-> 1, dials |-> 1]
        ELSE [err |-> Nil, socket |-> OpenSocket(cur, conn),
              live |-> liveSet \cup {conn}, conn |-> conn,
              resolves |-> 1, dials |-> 1]

\* a Close that answers nil on a connection that is already closed
IdempotentCloseErr(isLive, osFails) ==
    IF ~isLive THEN Nil
    ELSE IF osFails THEN CloseError ELSE Nil

\* UDPConn.Close: an error on a connection that is already closed, and
\* whatever the operating system answers on an open one
SocketCloseErr(isLive, osFails) ==
    IF ~isLive THEN CloseError
    ELSE IF osFails THEN CloseError ELSE Nil

\* the descriptor is gone after Close, whatever Close answered
LiveAfterClose(liveSet, s) == liveSet \ {s}

\* a Close that returns without closing the socket
CloseSkipped(s, liveSet, osFails) == [err |-> Nil, live |-> liveSet]

\* Close(): return u.socket.Close()
Close(s, liveSet, osFails) ==
    [err |-> SocketCloseErr(s \in liveSet, osFails),
     live |-> LiveAfterClose(liveSet, s)]

\* a Reopen with the test of the close error inverted
ProceedsOnError(closeErr) == closeErr # Nil

\* a Reopen that goes on to open() whatever Close answered
AlwaysProceeds(closeErr) == TRUE

\* Reopen(): if err := u.Close(); err != nil { return err }
ReopenProceeds(closeErr) == closeErr = Nil

\* UDPConn.Write on an open connection: how many of the bytes offered it takes
\* (nothing, or all but at most MaxShort)
Accepts(offeredLen) ==
    {n \in 0..offeredLen : n = 0 \/ offeredLen - n <= MaxShort}

(***************************************************************************)
(* Write's pieces.                                                         *)
(***************************************************************************)
\* a loop that tests <= where the code tests <
LoopCondOffByOne(total, toWriteLen, werr) == total <= toWriteLen /\ werr = Nil

\* a loop that goes on after the transport reported an error
LoopCondIgnoresError(total, toWriteLen, werr) == total < toWriteLen

\* for totalBytesWritten < toWriteLen && writeError == nil
LoopCond(total, toWriteLen, werr) == total < toWriteLen /\ werr = Nil

\* a loop that offers the whole payload again on every iteration
RemainingWhole(bytes, total) == bytes

\* rawBytes[totalBytesWritten:]
Remaining(bytes, total) == SubSeq(bytes, total + 1, Len(bytes))

\* totalBytesWritten += bytesWritten
Accumulate(total, n) == total + n

\* a cleanup that keeps the transport's error instead of overwriting it
KeepWriteError(werr, cerr) == werr

\* writeError = u.Close(); both returns that follow hand back writeError
CleanupError(werr, cerr) == cerr

\* a Write that leaves the socket alone after a failure
NeverCleanup(werr) == FALSE

\* if writeError != nil { ... u.Close() ... }
NeedsCleanup(werr) == werr # Nil

\* the log.Printf calls of Write
Diagnostics(logging, cerr) ==
    IF ~logging THEN 0 ELSE IF cerr # Nil THEN 2 ELSE 1

\* a cleanup that closes the socket only inside the if u.enableLogging block
CleanupWhenLogging(logging, werr, s, liveSet, osFails) ==
    IF NeedsCleanup(werr) /\ logging
    THEN LET c == Close(s, liveSet, osFails)
         IN  [err |-> CleanupError(werr, c.err), live |-> c.live, closes |-> 1,
              closeErr |-> c.err, logged |-> Diagnostics(logging, c.err)]
    ELSE [err |-> werr, live |-> liveSet, closes |-> 0, closeErr |-> Nil, logged |-> 0]

\* lines 114-133: what Write returns as its error, what is left of the open
\* sockets, and what it logged
Cleanup(logging, werr, s, liveSet, osFails) ==
    IF NeedsCleanup(werr)
    THEN LET c == Close(s, liveSet, osFails)
         IN  [err |-> CleanupError(werr, c.err), live |-> c.live, closes |-> 1,
              closeErr |-> c.err, logged |-> Diagnostics(logging, c.err)]
    ELSE [err |-> werr, live |-> liveSet, closes |-> 0, closeErr |-> Nil, logged |-> 0]

(***************************************************************************)
(* State.                                                                  *)
(***************************************************************************)
Open == constructed /\ socket \in live

NoRet == [op |-> "none", n |-> 0, err |-> Nil]

NewObs ==
    [wasOpen |-> socket \in live,
     oldSocket |-> socket,
     resolvable |-> FALSE,     \* DialUDP, Reopen: the address resolves at this call
     dialable |-> FALSE,       \* DialUDP, Reopen: a socket can be created at this call
     wErr |-> Nil,             \* the error a transport write reported
     writes |-> 0,             \* transport writes issued
     writesAfterErr |-> 0,     \* of these, issued after one had reported an error
     zeroAccept |-> FALSE,     \* the last transport write was offered bytes, took none
                               \* and reported no error
     short |-> FALSE,          \* a transport write took fewer bytes than offered and
                               \* reported no error
     wroteClosed |-> FALSE,    \* a transport write was issued on a closed handle
     concClose |-> FALSE,      \* another thread called Close during this call
     sent |-> <<>>,            \* the bytes the transport took, in order
     sentTo |-> {},            \* where they went
     closes |-> 0,             \* Close attempts
     closeErr |-> Nil,         \* what the last of them answered
     resolves |-> 0,
     dials |-> 0,
     hostFails |-> FALSE,
     logged |-> 0,
     \* successful Reopen calls in a row right before this call
     afterReopens |-> IF ret.op = "Reopen" /\ ret.err = Nil
                      THEN Bump(obs.afterReopens) ELSE 0]

\* no writer yet
InitWriter ==
    /\ constructed = FALSE
    /\ socket = NoSocket
    /\ address = ""
    /\ enableLogging = FALSE
    /\ live = {}
    /\ peer = [h \in Handles |-> ""]
    /\ pc = "idle"
    /\ op = "none"
    /\ rawBytes = <<>>
    /\ totalBytesWritten = 0
    /\ writeError = Nil
    /\ ret = NoRet
    /\ obs = [wasOpen |-> FALSE, oldSocket |-> NoSocket, resolvable |-> FALSE,
              dialable |-> FALSE, wErr |-> Nil, writes |-> 0, writesAfterErr |-> 0,
              zeroAccept |-> FALSE, short |-> FALSE, wroteClosed |-> FALSE,
              concClose |-> FALSE, sent |-> <<>>, sentTo |-> {}, closes |-> 0,
              closeErr |-> Nil, resolves |-> 0, dials |-> 0, hostFails |-> FALSE,
              logged |-> 0, afterReopens |-> 0]

\* the caller keeps to the contract of Close's comment: one thread, or one lock
Init == InitWriter /\ mutex = TRUE

NoWriteLocals ==
    /\ rawBytes' = <<>>
    /\ totalBytesWritten' = 0
    /\ writeError' = Nil

(***************************************************************************)
(* DialUDP(address, enableLogging)                                         *)
(***************************************************************************)
DialUDP ==
    /\ pc = "idle"
    /\ ~constructed
    /\ \E addr \in Addresses, logging \in BOOLEAN, dns \in BOOLEAN, can \in BOOLEAN :
          LET o == open(addr, socket, live, dns, can)
          IN  /\ o.err = Nil => o.conn # NoSocket
              /\ constructed' = (o.err = Nil)
              /\ address' = IF o.err = Nil THEN addr ELSE address
              /\ enableLogging' = IF o.err = Nil THEN logging ELSE enableLogging
              /\ socket' = o.socket
              /\ live' = o.live
              /\ peer' = IF o.conn # NoSocket THEN [peer EXCEPT ![o.conn] = addr] ELSE peer
              /\ obs' = [NewObs EXCEPT !.resolves = o.resolves, !.dials = o.dials,
                           !.resolvable = (ResolveUDPAddr(addr, dns) = Nil),
                           !.dialable = can]
              /\ ret' = [op |-> "DialUDP", n |-> 0, err |-> o.err]
    /\ op' = "DialUDP"
    /\ NoWriteLocals
    /\ UNCHANGED <<pc, mutex>>

(***************************************************************************)
(* Close()                                                                 *)
(***************************************************************************)
CallClose ==
    /\ pc = "idle"
    /\ constructed
    /\ \E osFails \in BOOLEAN :
          LET c == Close(socket, live, osFails)
          IN  /\ live' = c.live
              /\ obs' = [NewObs EXCEPT !.closes = 1, !.closeErr = c.err]
              /\ ret' = [op |-> "Close", n |-> 0, err |-> c.err]
    /\ op' = "Close"
    /\ NoWriteLocals
    /\ UNCHANGED <<constructed, socket, address, enableLogging, peer, pc, mutex>>

(***************************************************************************)
(* Reopen()                                                                *)
(* Two accesses to the writer with the waits of the resolver and the dial  *)
(* between them: the Close of line 59, and open() with its store of line   *)
(* 45.  Another thread can run between the two.                            *)
(***************************************************************************)
\* lines 58-61: Close, and the return when it failed
Reopen ==
    /\ pc = "idle"
    /\ constructed
    /\ \E osFails \in BOOLEAN, dns \in BOOLEAN, can \in BOOLEAN :
          LET c == Close(socket, live, osFails)
              host == [NewObs EXCEPT !.resolvable = (ResolveUDPAddr(address, dns) = Nil),
                                     !.dialable = can]
          IN  /\ live' = c.live
              /\ IF ~ReopenProceeds(c.err)
                 THEN /\ obs' = [host EXCEPT !.closes = 1, !.closeErr = c.err]
                      /\ ret' = [op |-> "Reopen", n |-> 0, err |-> c.err]
                      /\ pc' = "idle"
                 ELSE /\ obs' = [NewObs EXCEPT !.closes = 1, !.closeErr = c.err]
                      /\ ret' = NoRet
                      /\ pc' = "reopen"
    /\ op' = "Reopen"
    /\ NoWriteLocals
    /\ UNCHANGED <<constructed, socket, address, enableLogging, peer, mutex>>

\* lines 63-67: open() and the return
ReopenOpen ==
    /\ pc = "reopen"
    /\ \E dns \in BOOLEAN, can \in BOOLEAN :
          LET o == open(address, socket, live, dns, can)
          IN  /\ o.err = Nil => o.conn # NoSocket
              /\ live' = o.live
              /\ socket' = o.socket
              /\ peer' = IF o.conn # NoSocket
                         THEN [peer EXCEPT ![o.conn] = address] ELSE peer
              /\ obs' = [obs EXCEPT !.resolvable = (ResolveUDPAddr(address, dns) = Nil),
                                    !.dialable = can,
                                    !.resolves = o.resolves, !.dials = o.dials]
              /\ ret' = [op |-> "Reopen", n |-> 0, err |-> o.err]
    /\ pc' = "idle"
    /\ UNCHANGED <<constructed, address, enableLogging, op, rawBytes,
                   totalBytesWritten, writeError, mutex>>

(***************************************************************************)
(* Write(rawBytes) and Log(msg)                                            *)
(***************************************************************************)
\* entry of Write: the locals of lines 103-105
EnterWrite(entry, bytes, hostFails) ==
    /\ pc = "idle"
    /\ constructed
    /\ op' = entry
    /\ rawBytes' = bytes
    /\ totalBytesWritten' = 0
    /\ writeError' = Nil
    /\ obs' = [NewObs EXCEPT !.hostFails = hostFails]
    /\ ret' = NoRet
    /\ pc' = "loop"
    /\ UNCHANGED <<constructed, socket, address, enableLogging, live, peer, mutex>>

CallWrite == \E p \in Payloads : EnterWrite("Write", p, FALSE)

CallLog ==
    \E msg \in Messages, ts \in Timestamps, name \in Hostnames, lookupFails \in BOOLEAN :
        EnterWrite("Log", Sprintf(basicMessageFormat, ts, msg, Hostname(name, lookupFails)),
                   lookupFails)

\* the loop condition holds: go on to the transport write
LoopEnter ==
    /\ pc = "loop"
    /\ LoopCond(totalBytesWritten, Len(rawBytes), writeError)
    /\ pc' = "write"
    /\ UNCHANGED <<constructed, socket, address, enableLogging, live, peer,
                   op, rawBytes, totalBytesWritten, writeError, obs, ret, mutex>>

\* bytesWritten, writeError = u.socket.Write(rawBytes[totalBytesWritten:])
\* totalBytesWritten += bytesWritten
\* A closed socket takes nothing and reports an error; an open one takes some
\* of the bytes offered and may report an error.
SocketWrite ==
    /\ pc = "write"
    /\ LET offered == Remaining(rawBytes, totalBytesWritten)
       IN  \E n \in Accepts(Len(offered)), e \in {Nil, WriteError} :
              /\ socket \notin live => (n = 0 /\ e = WriteError)
              /\ totalBytesWritten' = Accumulate(totalBytesWritten, n)
              /\ writeError' = e
              /\ obs' = [obs EXCEPT
                           !.writes = Bump(@),
                           !.writesAfterErr = IF obs.wErr # Nil THEN Bump(@) ELSE @,
                           !.wErr = IF e # Nil THEN e ELSE @,
                           !.zeroAccept = (n = 0 /\ e = Nil /\ Len(offered) > 0),
                           !.short = @ \/ (e = Nil /\ n < Len(offered)),
                           !.wroteClosed = @ \/ socket \notin live,
                           !.sent = @ \o SubSeq(offered, 1, n),
                           !.sentTo = IF n > 0 THEN @ \cup {peer[socket]} ELSE @]
    /\ pc' = "loop"
    /\ UNCHANGED <<constructed, socket, address, enableLogging, live, peer,
                   op, rawBytes, ret, mutex>>

\* the loop condition fails: lines 114-133
WriteReturn ==
    /\ pc = "loop"
    /\ ~LoopCond(totalBytesWritten, Len(rawBytes), writeError)
    /\ \E osFails \in BOOLEAN :
          LET r == Cleanup(enableLogging, writeError, socket, live, osFails)
          IN  /\ live' = r.live
              /\ writeError' = r.err
              /\ obs' = [obs EXCEPT !.closes = IF r.closes = 1 THEN Bump(@) ELSE @,
                                    !.closeErr = IF r.closes = 1 THEN r.closeErr ELSE @,
                                    !.logged = r.logged]
    /\ ret' = [op |-> op, n |-> totalBytesWritten, err |-> writeError']
    /\ pc' = "idle"
    /\ UNCHANGED <<constructed, socket, address, enableLogging, peer,
                   op, rawBytes, totalBytesWritten, mutex>>

(***************************************************************************)
(* Close() called by a second thread while the first is inside Write or    *)
(* between the two halves of Reopen: what Close's comment warns against.   *)
(* It is possible only when the caller holds no lock across the            *)
(* operations.  Its read of u.socket is not ordered with the store of      *)
(* line 45, so it closes the old connection or the new one: the old one    *)
(* when it runs before ReopenOpen, the new one when it runs after it, as   *)
(* CallClose.                                                              *)
(***************************************************************************)
ConcurrentClose ==
    /\ ~mutex
    /\ constructed
    /\ pc # "idle"
    /\ ~obs.concClose
    /\ \E osFails \in BOOLEAN :
          live' = Close(socket, live, osFails).live
    /\ obs' = [obs EXCEPT !.concClose = TRUE]
    /\ UNCHANGED <<constructed, socket, address, enableLogging, peer,
                   pc, op, rawBytes, totalBytesWritten, writeError, ret, mutex>>

Next ==
    \/ DialUDP
    \/ CallClose
    \/ Reopen
    \/ ReopenOpen
    \/ CallWrite
    \/ CallLog
    \/ LoopEnter
    \/ SocketWrite
    \/ WriteReturn

Spec == Init /\ [][Next]_vars

\* the same program with a caller that may or may not hold the lock
ConcInit == InitWriter /\ mutex \in BOOLEAN

ConcNext == Next \/ ConcurrentClose

ConcSpec == ConcInit /\ [][ConcNext]_vars

\* A call in progress keeps running: the thread inside Write is scheduled.
FairSpec ==
    Spec /\ WF_vars(LoopEnter) /\ WF_vars(SocketWrite) /\ WF_vars(WriteReturn)
         /\ WF_vars(ReopenOpen)

(***************************************************************************)
(* Properties.                                                             *)
(***************************************************************************)
\* Write (called directly, or through Log) has just returned
WriteReturned == pc = "idle" /\ ret.op \in {"Write", "Log"}

\* Reopen has just returned
ReopenReturned == pc = "idle" /\ ret.op = "Reopen"

\* Close has just returned
CloseReturned == pc = "idle" /\ ret.op = "Close"

\* C1: when a transport write inside Write reports an error and the cleanup
\* Close succeeds, Write returns that write error (not nil) and the number of
\* bytes the transport took so far.
C1_WriteErrorSurfaces ==
    (WriteReturned /\ obs.wErr # Nil /\ obs.closeErr = Nil)
        => (ret.err = obs.wErr /\ ret.err # Nil /\ ret.n = Len(obs.sent))

\* C2: whenever Write returns, the returned count equals the payload length or
\* the returned error is not nil.
C2_CountOrError ==
    WriteReturned => (ret.n = Len(rawBytes) \/ ret.err # Nil)

\* C3: when a transport write reports an error and the cleanup Close fails too,
\* Write returns the close error, not the write error, and the number of bytes
\* the transport took so far.
C3_CloseErrorWins ==
    (WriteReturned /\ obs.wErr # Nil /\ obs.closeErr # Nil)
        => (ret.err = obs.closeErr /\ ret.err # obs.wErr /\ ret.n = Len(obs.sent))

C3_Witness ==
    /\ WriteReturned
    /\ obs.wErr # Nil
    /\ obs.closeErr # Nil
    /\ obs.wasOpen
    /\ 0 < ret.n /\ ret.n < Len(rawBytes)

\* C4: in every Write call no transport write follows one that reported an
\* error and no Close is attempted while the loop runs; on return exactly one
\* Close was attempted if a transport write reported an error, and none
\* otherwise.
C4_OneCloseOnFailure ==
    op \in {"Write", "Log"} =>
        /\ obs.writesAfterErr = 0
        /\ pc # "idle" => obs.closes = 0
        /\ WriteReturned => obs.closes = (IF obs.wErr # Nil THEN 1 ELSE 0)

C4_Witness ==
    /\ WriteReturned
    /\ obs.wErr # Nil
    /\ obs.writes = 2
    /\ obs.closes = 1
    /\ obs.writesAfterErr = 0

\* C5: Reopen called on a closed writer, with the address resolving and a socket
\* available, returns no error and leaves the writer open on a fresh handle.
C5_ReopenRecovers ==
    (ReopenReturned /\ ~obs.wasOpen /\ obs.resolvable /\ obs.dialable)
        => (ret.err = Nil /\ Open /\ socket # obs.oldSocket)

\* C6 as stated: every Write call eventually returns, whatever the transport
\* takes on each attempt (zero bytes without an error included).
C6_WriteTerminates == (pc # "idle") ~> (pc = "idle")

\* C6 as amended: every Write call eventually returns unless the transport
\* takes zero bytes without an error again, and it returns with all bytes
\* written or after a transport write reported an error.
C6_WriteTerminatesOnProgress ==
    /\ (pc # "idle") ~> (pc = "idle" \/ obs.zeroAccept)
    /\ [](WriteReturned => (ret.n = Len(rawBytes) \/ obs.wErr # Nil))

C6_Witness ==
    /\ WriteReturned
    /\ ret.err = Nil
    /\ ret.n = Len(rawBytes)
    /\ obs.writes = 2
    /\ ~obs.zeroAccept

\* C7: Write never reopens and never resends: after a transport write reported
\* an error Write returns with the writer closed and without a further
\* transport write; no step of Write changes the handle or opens a socket; and
\* a closed writer becomes open by no call but Reopen.
C7_NoReopenNoResend ==
    /\ []((WriteReturned /\ obs.wErr # Nil) => (~Open /\ obs.writesAfterErr = 0))
    /\ [][op' \in {"Write", "Log"} => (socket' = socket /\ live' \subseteq live)]_vars
    /\ [][(constructed /\ ~Open /\ Open') => op' = "Reopen"]_vars

C7_Witness ==
    /\ WriteReturned
    /\ obs.wErr # Nil
    /\ obs.wasOpen
    /\ ~Open
    /\ obs.closeErr = Nil
    /\ Len(obs.sent) < Len(rawBytes)

\* C8: when the Close step of Reopen fails, Reopen returns that close error,
\* attempts neither address resolution nor a dial, and leaves the handle as it
\* was.
C8_ReopenAbortsOnCloseError ==
    (ReopenReturned /\ obs.closeErr # Nil)
        => /\ ret.err = obs.closeErr
           /\ obs.resolves = 0
           /\ obs.dials = 0
           /\ socket = obs.oldSocket

C8_Witness ==
    /\ ReopenReturned
    /\ obs.closeErr # Nil
    /\ obs.resolvable
    /\ obs.dialable

\* C9: Reopen on an open writer, with the host closing, resolving and dialling
\* without error, returns no error and leaves the writer open on a socket
\* dialled to the configured address, however many Reopen calls went before;
\* a Log issued after such Reopen calls starts on an open writer and, the
\* transport reporting no error, returns no error and the full length with the
\* whole envelope delivered to the configured address.
C9_ReopenHealthy ==
    /\ (ReopenReturned /\ obs.wasOpen /\ obs.closeErr = Nil
            /\ obs.resolvable /\ obs.dialable)
          => (ret.err = Nil /\ Open /\ peer[socket] = address)
    /\ (op = "Log" /\ obs.afterReopens >= 1)
          => /\ obs.wasOpen
             /\ (WriteReturned /\ obs.wErr = Nil)
                   => /\ ret.err = Nil
                      /\ ret.n = Len(rawBytes)
                      /\ obs.sent = rawBytes
                      /\ obs.sentTo = {address}

C9_Witness ==
    /\ WriteReturned
    /\ ret.op = "Log"
    /\ obs.afterReopens = 2
    /\ ret.err = Nil
    /\ obs.sent = rawBytes
    /\ obs.sentTo = {address}

\* C10: Close on a writer whose socket is already closed returns an error and
\* leaves the writer closed.
C10_CloseNotIdempotent ==
    (CloseReturned /\ ~obs.wasOpen) => (ret.err # Nil /\ ~Open)

C10_Witness ==
    /\ CloseReturned
    /\ ~obs.wasOpen
    /\ ret.err = CloseError

\* DialUDP has just returned
DialReturned == pc = "idle" /\ ret.op = "DialUDP"

\* C11: DialUDP returns an open writer and no error when the address resolves
\* and a socket can be created, and an error and no writer otherwise; never a
\* writer together with an error, never neither.
C11_DialUDPWriterOrError ==
    DialReturned =>
        /\ constructed <=> ret.err = Nil
        /\ (obs.resolvable /\ obs.dialable)
              => (ret.err = Nil /\ Open /\ peer[socket] = address)
        /\ ~obs.resolvable => (ret.err = AddressResolutionError /\ ~constructed)
        /\ (obs.resolvable /\ ~obs.dialable) => (ret.err = ConnectionError /\ ~constructed)

C11_Witness ==
    /\ DialReturned
    /\ constructed
    /\ ret.err = Nil
    /\ Open
    /\ address = "logstash:5000"

\* C12: the logging flag is a side channel.  Whatever the state Write leaves
\* its loop in and whatever the close answers, lines 114-133 give the same
\* error, the same open sockets and the same number of closes with the flag
\* on and off; and every return Write makes is one the writer with the flag
\* flipped makes too, with the same count, error and open/closed state.
C12_LoggingIsSideChannel ==
    /\ [](\A osFails \in BOOLEAN :
            LET on == Cleanup(TRUE, writeError, socket, live, osFails)
                off == Cleanup(FALSE, writeError, socket, live, osFails)
            IN  /\ on.err = off.err
                /\ on.live = off.live
                /\ on.closes = off.closes
                /\ on.closeErr = off.closeErr)
    /\ [][(pc = "loop" /\ pc' = "idle") =>
            \E osFails \in BOOLEAN :
               LET r == Cleanup(~enableLogging, writeError, socket, live, osFails)
               IN  /\ ret'.err = r.err
                   /\ ret'.n = totalBytesWritten
                   /\ live' = r.live
                   /\ socket' = socket]_vars

C12_Witness ==
    /\ WriteReturned
    /\ enableLogging
    /\ obs.logged = 2
    /\ ret.err = CloseError
    /\ obs.wasOpen

\* C13 as stated: a Log call issues at most one transport write.
C13_OneDatagramPerLog == op = "Log" => obs.writes <= 1

\* C13 as amended: the first transport write of a Log call carries the whole
\* envelope and every Log call issues at least one; a further one is issued
\* only after a transport write took fewer bytes than offered without an
\* error; with no such write and no error Log issues exactly one, which
\* delivers the envelope.
C13_OneWriteUnlessShort ==
    op = "Log" =>
        /\ (pc = "write" /\ obs.writes = 0)
              => Remaining(rawBytes, totalBytesWritten) = rawBytes
        /\ obs.writes >= 2 => obs.short
        /\ WriteReturned => obs.writes >= 1
        /\ (WriteReturned /\ ~obs.short /\ obs.wErr = Nil)
              => (obs.writes = 1 /\ obs.sent = rawBytes)

C13_Witness ==
    /\ WriteReturned
    /\ ret.op = "Log"
    /\ obs.writes = 1
    /\ ~obs.short
    /\ obs.sent = rawBytes
    /\ ret.err = Nil

\* C14 as stated: after a Write in which the transport reported an error the
\* writer is open again on a socket to the configured address.
C14_TransparentReopen ==
    (WriteReturned /\ obs.wErr # Nil) => (Open /\ peer[socket] = address)

\* C14 as amended: after a Write in which the transport reported an error the
\* writer has closed its socket once and not reopened it: it is closed, on
\* the handle it had, with no resolve and no dial attempted.
C14_ClosedAfterFailure ==
    (WriteReturned /\ obs.wErr # Nil)
        => /\ ~Open
           /\ socket = obs.oldSocket
           /\ obs.closes = 1
           /\ obs.resolves = 0
           /\ obs.dials = 0

C14_Witness ==
    /\ WriteReturned
    /\ obs.wErr # Nil
    /\ obs.wasOpen
    /\ ~Open
    /\ obs.closes = 1
    /\ obs.writes = 1

\* C15: when the hostname lookup fails Log builds the envelope with an empty
\* host field and returns what Write returns for it: Write's count and error,
\* never an error of the lookup; with no transport error that is the full
\* length and nil, and the writer is left as it was.
C15_HostnameFailureSwallowed ==
    (op = "Log" /\ obs.hostFails) =>
        /\ \E ts \in Timestamps, msg \in Messages :
              rawBytes = Sprintf(basicMessageFormat, ts, msg, <<>>)
        /\ WriteReturned =>
              /\ ret.n = totalBytesWritten
              /\ ret.err = writeError
              /\ ret.err \in {Nil, CloseError}
        /\ (WriteReturned /\ obs.wErr = Nil) =>
              /\ ret.err = Nil
              /\ ret.n = Len(rawBytes)
              /\ (socket \in live) = obs.wasOpen

C15_Witness ==
    /\ WriteReturned
    /\ ret.op = "Log"
    /\ obs.hostFails
    /\ ret.err = Nil
    /\ ret.n = Len(rawBytes)

\* C16: at every point of a Write call the bytes the transport took so far are
\* the payload's prefix of the length of the running count, which lies between
\* 0 and the payload length; each transport write is offered exactly the rest;
\* the returned count is the number of bytes taken.
C16_SuffixOffered ==
    op \in {"Write", "Log"} =>
        /\ 0 <= totalBytesWritten
        /\ totalBytesWritten <= Len(rawBytes)
        /\ Len(obs.sent) = totalBytesWritten
        /\ obs.sent = SubSeq(rawBytes, 1, totalBytesWritten)
        /\ obs.sent \o Remaining(rawBytes, totalBytesWritten) = rawBytes
        /\ WriteReturned => ret.n = Len(obs.sent)

C16_Witness ==
    /\ WriteReturned
    /\ Len(rawBytes) = 3
    /\ rawBytes[1] # rawBytes[2]
    /\ obs.writes = 2
    /\ obs.short
    /\ obs.sent = rawBytes
    /\ ret.n = 3

\* C17: with one lock held across all operations no Write that started on an
\* open writer issues a transport write on a closed handle.  Without it a
\* Close on a second thread can land inside a Write that started on an open
\* writer; a transport write then goes to the closed handle, and Write closes
\* the socket a second time, which fails, and returns that close error.
C17_LockKeepsHandleOpen ==
    /\ (mutex /\ op \in {"Write", "Log"} /\ obs.wasOpen) => ~obs.wroteClosed
    /\ (~mutex /\ WriteReturned /\ obs.wasOpen /\ obs.wroteClosed)
          => /\ obs.concClose
             /\ obs.closes = 1
             /\ obs.closeErr = CloseError
             /\ ret.err = CloseError

C17_Witness ==
    /\ ~mutex
    /\ WriteReturned
    /\ obs.wasOpen
    /\ obs.concClose
    /\ obs.wroteClosed
    /\ obs.closes = 1
    /\ obs.closeErr = CloseError

\* C18: when Reopen's Close succeeds and the open that follows fails, Reopen
\* returns the open error and leaves the writer closed on the old handle; a
\* Reopen on a closed writer fails at its Close step without trying to open;
\* so a writer that is closed is never open again: a closed writer gets
\* neither open nor past the Close step of a Reopen (the one step that opens
\* is the open() of a Reopen whose Close has just closed an open socket).
C18_FailedReopenIsFinal ==
    /\ []((ReopenReturned /\ obs.closeErr = Nil /\ ~(obs.resolvable /\ obs.dialable))
            => /\ ret.err = (IF obs.resolvable THEN ConnectionError
                             ELSE AddressResolutionError)
               /\ ~Open
               /\ socket = obs.oldSocket)
    /\ []((ReopenReturned /\ ~obs.wasOpen)
            => (ret.err = CloseError /\ obs.resolves = 0 /\ obs.dials = 0))
    /\ [](pc = "reopen" => (obs.wasOpen /\ obs.closeErr = Nil))
    /\ [][(constructed /\ ~Open /\ pc # "reopen") => (~Open' /\ pc' # "reopen")]_vars

C18_Witness ==
    /\ ReopenReturned
    /\ obs.wasOpen
    /\ obs.closeErr = Nil
    /\ ret.err = AddressResolutionError
    /\ ~Open
    /\ socket = obs.oldSocket

\* C19: at most one socket the writer created is open at any time, and it is
\* the one the writer holds; the address and the logging flag of a writer
\* never change.
C19_OneLiveSocket ==
    /\ [](Cardinality(live) <= 1 /\ live \subseteq {socket})
    /\ [](\A h \in live : peer[h] = address)
    /\ [][constructed => (address' = address /\ enableLogging' = enableLogging)]_vars

C19_Witness ==
    /\ ReopenReturned
    /\ ret.err = Nil
    /\ obs.wasOpen
    /\ socket # obs.oldSocket
    /\ live = {socket}
    /\ obs.afterReopens = 1

\* C20: Write with an empty payload returns 0 and nil, issues no transport
\* write and no Close, and leaves the writer as it was, open or closed.
C20_EmptyWrite ==
    (WriteReturned /\ ret.op = "Write" /\ rawBytes = <<>>)
        => /\ ret.n = 0
           /\ ret.err = Nil
           /\ obs.writes = 0
           /\ obs.closes = 0
           /\ socket = obs.oldSocket
           /\ (socket \in live) = obs.wasOpen

C20_Witness ==
    /\ WriteReturned
    /\ ret.op = "Write"
    /\ rawBytes = <<>>
    /\ ~obs.wasOpen
    /\ ret.n = 0
    /\ ret.err = Nil

====
